---------------------------- MODULE Spec2Model ----------------------------
(***************************************************************************)
(* A model of bot.py: the per-user text buffer, the debounce jobs of the   *)
(* job queue, the button callbacks and the synthesis run.                  *)
(*                                                                         *)
(* Text is a sequence of atoms.  "NL" is a newline, "SP" a blank, "TS" a   *)
(* well-formed time range line body ("00:00:01,000 --> 00:00:02,000"),     *)
(* "1" a run of digits, "a" and "b" are words (user 1 only ever types "a", *)
(* user 2 only "b", so that the origin of a text can be read off it).      *)
(* Time is counted in tenths of a second.                                  *)
(***************************************************************************)
EXTENDS Integers, Sequences, FiniteSets, TLC

\* ------------------------------------------------------------------ bounds
MaxBufLen == 8
MaxLiveJobs == 3
\* the updates (messages, uploads, commands, button taps) of one run
MaxUpdates == 4
\* the clock advances by at most this many tenths of a second in one step
TickStep == 10

\* ------------------------------------------------------- program constants
\* run_once(process_buffered_text, 2.0, ...) in tenths of a second
TextDelay == 20
\* run_once(process_buffered_text, 0.1, ...) in tenths of a second
FileDelay == 1

DEFAULT_VOICE == "en-US-AriaNeural"

VOICE_CATEGORIES ==
  [ burmese      |-> {"my-MM-ThihaNeural", "my-MM-NilarNeural"},
    japanese     |-> {"ja-JP-NanamiNeural", "ja-JP-KeitaNeural"},
    multilingual |-> {"en-US-AndrewMultilingualNeural", "en-US-AvaMultilingualNeural",
                      "en-US-BrianMultilingualNeural", "en-US-EmmaMultilingualNeural"},
    english      |-> {"en-US-AriaNeural", "en-US-GuyNeural",
                      "en-GB-SoniaNeural", "en-GB-RyanNeural"} ]

CategoryKeys == DOMAIN VOICE_CATEGORIES

ALL_VOICES_FLAT == UNION {VOICE_CATEGORIES[k] : k \in CategoryKeys}

\* ------------------------------------------------------------------- users
Users == {1, 2}

Word(u) == IF u = 1 THEN "a" ELSE "b"

\* the keys a session lacks: no atom of a text is "absent"
NoBuffer == <<"absent">>
NoVoice == "absent"
NoJob == 0
NoData == 0

\* ------------------------------------------------------------------- text
EmptyStr == << >>

IsBlankAtom(c) == c \in {"SP", "NL"}

\* str.strip() == "" : nothing but white space
StripIsEmpty(s) == \A i \in 1..Len(s) : IsBlankAtom(s[i])

\* str.replace("\n", " ")
ReplaceNL(s) == [i \in 1..Len(s) |-> IF s[i] = "NL" THEN "SP" ELSE s[i]]

\* str.rstrip() of one line (a line holds no "NL")
RECURSIVE RStrip(_)
RStrip(l) == IF l # << >> /\ l[Len(l)] = "SP" THEN RStrip(SubSeq(l, 1, Len(l) - 1)) ELSE l

\* the lines of a text file, each without its line end
RECURSIVE SplitLines(_, _)
SplitLines(s, cur) ==
  IF s = << >> THEN (IF cur = << >> THEN << >> ELSE <<cur>>)
  ELSE IF Head(s) = "NL" THEN <<cur>> \o SplitLines(Tail(s), << >>)
  ELSE SplitLines(Tail(s), Append(cur, Head(s)))

\* " ".join(parts)
RECURSIVE JoinWith(_, _)
JoinWith(parts, sep) ==
  IF parts = << >> THEN << >>
  ELSE IF Len(parts) = 1 THEN parts[1]
  ELSE parts[1] \o <<sep>> \o JoinWith(Tail(parts), sep)


\* ---------------------------------------------------- pysrt (SubRipFile.open)
\* SubRipFile.stream: the runs of non-blank lines, a blank line ending each run
RECURSIVE Blocks(_, _)
Blocks(lines, cur) ==
  IF lines = << >> THEN (IF cur = << >> THEN << >> ELSE <<cur>>)
  ELSE IF StripIsEmpty(Head(lines))
       THEN (IF cur = << >> THEN << >> ELSE <<cur>>) \o Blocks(Tail(lines), << >>)
       ELSE Blocks(Tail(lines), Append(cur, Head(lines)))

\* the number of "-->" in a line
RECURSIVE ArrowCount(_)
ArrowCount(l) ==
  IF l = << >> THEN 0 ELSE (IF Head(l) = "TS" THEN 1 ELSE 0) + ArrowCount(Tail(l))

\* SubRipItem.from_lines: the lines after the optional index line
ItemLines(block) ==
  LET ls == [i \in 1..Len(block) |-> RStrip(block[i])]
  IN  IF ArrowCount(ls[1]) = 0 THEN Tail(ls) ELSE ls

\* SubRipItem.from_lines raises no pysrt.Error: at least two lines, and the
\* line after the optional index splits at "-->" into exactly two time stamps
ItemValid(block) ==
  /\ Len(block) >= 2
  /\ ArrowCount(ItemLines(block)[1]) = 1

\* sub.text.replace('\n', ' ') of a valid item
ItemText(block) == JoinWith(Tail(ItemLines(block)), "SP")

\* the items pysrt keeps (error_handling = ERROR_PASS drops the others)
RECURSIVE ValidItems(_)
ValidItems(bs) ==
  IF bs = << >> THEN << >>
  ELSE (IF ItemValid(Head(bs)) THEN <<Head(bs)>> ELSE << >>) \o ValidItems(Tail(bs))

\* " ".join([sub.text.replace('\n', ' ') for sub in pysrt.open("temp.srt")])
PysrtText(file) ==
  LET items == ValidItems(Blocks(SplitLines(file, << >>), << >>))
  IN  JoinWith([i \in 1..Len(items) |-> ItemText(items[i])], "SP")

\* a read of temp.srt that sees what the file held before this call
TempSrtRead_Stale(written, before) == before

\* srt_to_clean_text reads back temp.srt: the file it has just written
TempSrtRead(written, before) == written

\* srt_to_clean_text: parsed [ok], or the fallback when open/pysrt raises
srt_to_clean_text(srt_content, before, ok) ==
  IF ok THEN PysrtText(TempSrtRead(srt_content, before))
  ELSE ReplaceNL(srt_content)

\* -------------------------------------------------------------------- state
VARIABLES
  buffer,      \* context.user_data['buffer'] of each user, NoBuffer before the first write
  job,         \* context.user_data['job'] of each user: the id of a Job, NoJob if absent
  voice,       \* context.user_data['voice'] of each user, NoVoice if never set
  jobs,        \* the jobs scheduled in the job queue
  files,       \* the users u whose downloads/<u>.mp3 exists
  temp_srt,    \* the content of temp.srt
  last,        \* what the handler that ran last did
  burst,       \* per user, the text fragments of the running burst (gaps < TextDelay)
  since,       \* per user, the time since the last fragment of that burst
  flushes,     \* per user, the flushes of text timers since that burst began
  delivered,   \* per user, a generation succeeded and no fragment arrived since
  cleared,     \* per user, a clear ran and no fragment arrived since
  updates,     \* the updates handled so far
  users        \* the users who talk to the bot in this run

vars == <<buffer, job, voice, jobs, files, temp_srt, last, burst, since, flushes,
          delivered, cleared, updates, users>>

session == <<buffer, job, voice>>
history == <<burst, since, flushes, delivered, cleared>>

\* context.user_data.get('buffer', "")
GetBuffer(u) == IF buffer[u] = NoBuffer THEN EmptyStr ELSE buffer[u]

\* get_user_voice: context.user_data.get('voice', DEFAULT_VOICE)
get_user_voice(u) == IF voice[u] = NoVoice THEN DEFAULT_VOICE ELSE voice[u]

JobsOf(u) == {j \in jobs : j.user_id = u}

\* a Job object not yet held by the queue or by another session
IdLimit == MaxLiveJobs + Cardinality(Users) + 1
FreshId(queue, u) ==
  LET used == {j.id : j \in queue} \cup {job[v] : v \in Users \ {u}}
  IN  CHOOSE i \in 1..IdLimit : i \notin used /\ \A k \in 1..(i - 1) : k \in used

\* what a handler reports; the fields a handler does not use keep these values
Quiet(op, u) ==
  [op |-> op, user |-> u, reply |-> "none", raised |-> FALSE, engine |-> FALSE,
   synth |-> "none", text |-> EmptyStr, voice_id |-> "", read |-> EmptyStr,
   data |-> NoData, token |-> << >>]

\* everything but the buffers, as the application starts
Fresh ==
  /\ job = [u \in Users |-> NoJob]
  /\ voice = [u \in Users |-> NoVoice]
  /\ jobs = {}
  /\ files = {}
  /\ temp_srt = EmptyStr
  /\ last = Quiet("init", 0)
  /\ burst = [u \in Users |-> << >>]
  /\ since = [u \in Users |-> 0]
  /\ flushes = [u \in Users |-> 0]
  /\ delivered = [u \in Users |-> FALSE]
  /\ cleared = [u \in Users |-> FALSE]
  /\ updates = 0

Start == buffer = [u \in Users |-> NoBuffer] /\ Fresh

\* one user alone
Init == Start /\ users = {1}

\* two users at once
InitShared == Start /\ users = Users

Shared == Cardinality(users) > 1

\* ------------------------------------------------------------------ inputs
\* what a user types: a word, or a pasted subtitle cue (Telegram delivers no blank
\* message); with two users each types one word
TextFragments(u) ==
  IF u = 1 THEN { <<"a">> } \cup (IF Shared THEN {} ELSE { <<"1", "NL", "TS", "NL", "a">> })
  ELSE { <<"b">> }

\* the content of an uploaded .srt document: a cue, or a blank file
FileContents(u) ==
  IF u = 1 THEN { <<"1", "NL", "TS", "NL", "a", "NL">> } \cup
                (IF Shared THEN {} ELSE { <<"SP", "NL">> })
  ELSE { <<"TS", "NL", "b">> }

\* file names the filter Document.FileExtension("srt") lets through
FileNames == {"X.SRT"}

\* str.lower().endswith('.srt')
EndsWithSrt(name) == name \in {"x.srt", "X.SRT"}

\* the burst bookkeeping of an event that is no text fragment and ends the burst
EndBurst(u) ==
  /\ burst' = [burst EXCEPT ![u] = << >>]
  /\ since' = [since EXCEPT ![u] = 0]
  /\ flushes' = [flushes EXCEPT ![u] = 0]

\* ------------------------------------------------------- handle_text_message
\* context.user_data['buffer'] += text + "\n"
AppendText(buf, text) == buf \o text \o <<"NL">>

\* Job.schedule_removal of the job the session holds: a job still in the queue is
\* removed; for one that has already run, the queue's Job.remove either raises
\* JobLookupError (the job is no longer in the job store) or does nothing,
\* depending on the job queue library: both are outcomes of the call.
handle_text_message(u, text, lookupRaises) ==
  LET buf1 == AppendText(GetBuffer(u), text)
      held == {j \in jobs : j.id = job[u]}
      stale == job[u] # NoJob /\ held = {}
      queue1 == jobs \ held
      id == FreshId(queue1, u)
      sameBurst == burst[u] # << >> /\ since[u] < TextDelay
  IN  /\ Len(buf1) <= MaxBufLen
      /\ lookupRaises => stale
      /\ buffer' = [buffer EXCEPT ![u] = buf1]
      /\ IF stale /\ lookupRaises
         THEN /\ UNCHANGED <<job, jobs>>
              /\ last' = [Quiet("handle_text_message", u) EXCEPT !.raised = TRUE]
         ELSE /\ jobs' = queue1 \cup
                   {[id |-> id, user_id |-> u, data |-> u, remaining |-> TextDelay]}
              /\ job' = [job EXCEPT ![u] = id]
              /\ last' = Quiet("handle_text_message", u)
      /\ burst' = [burst EXCEPT ![u] = IF sameBurst THEN Append(@, text) ELSE <<text>>]
      /\ since' = [since EXCEPT ![u] = 0]
      /\ flushes' = [flushes EXCEPT ![u] = IF sameBurst THEN @ ELSE 0]
      /\ delivered' = [delivered EXCEPT ![u] = FALSE]
      /\ cleared' = [cleared EXCEPT ![u] = FALSE]
      /\ UNCHANGED <<voice, files, temp_srt>>

\* ------------------------------------------------------ process_buffered_text
\* a callback that prompts whatever the buffer holds
Prompts_Unchecked(full_text) == TRUE

\* if not full_text.strip(): return
Prompts(full_text) == ~StripIsEmpty(full_text)

\* the job queue runs a due job and drops it; the callback only reads the session
process_buffered_text(j) ==
  LET u == j.user_id
      full_text == GetBuffer(u)
  IN  /\ j.remaining = 0
      /\ jobs' = jobs \ {j}
      /\ last' = [Quiet("process_buffered_text", u) EXCEPT
                    !.reply = IF Prompts(full_text) THEN "Prompt" ELSE "none",
                    !.read = full_text,
                    !.data = j.data]
      /\ flushes' = [flushes EXCEPT ![u] =
                       IF burst[u] # << >> /\ j.data = u /\ @ < 2 THEN @ + 1 ELSE @]
      /\ UNCHANGED <<session, files, temp_srt, burst, since, delivered, cleared>>

\* ---------------------------------------------------------------- handle_file
\* an upload that joins the debounce window of a pending text timer
UploadDelay_Debounced(textPending) == IF textPending THEN TextDelay ELSE FileDelay

\* run_once(process_buffered_text, 0.1, ...): the delay does not look at the queue
UploadDelay(textPending) == FileDelay

handle_file(u, name, content, downloadOk) ==
  IF ~EndsWithSrt(name)
  THEN /\ last' = [Quiet("handle_file", u) EXCEPT !.reply = "NotSrt"]
       /\ UNCHANGED <<session, jobs, files, temp_srt, history>>
  ELSE IF ~downloadOk
  THEN /\ last' = [Quiet("handle_file", u) EXCEPT !.raised = TRUE]
       /\ UNCHANGED <<session, jobs, files, temp_srt, history>>
  ELSE /\ Cardinality(jobs) < MaxLiveJobs
       /\ buffer' = [buffer EXCEPT ![u] = content]
       /\ jobs' = jobs \cup {[id |-> FreshId(jobs, 0), user_id |-> u, data |-> NoData,
                              remaining |-> UploadDelay(JobsOf(u) # {})]}
       /\ last' = Quiet("handle_file", u)
       /\ EndBurst(u)
       /\ delivered' = [delivered EXCEPT ![u] = FALSE]
       /\ cleared' = [cleared EXCEPT ![u] = FALSE]
       /\ UNCHANGED <<job, voice, files, temp_srt>>

\* ----------------------------------------------------------------------- time
Min(a, b) == IF a <= b THEN a ELSE b

\* how far the clock may advance: up to the next due job, TickStep at most
Advance ==
  LET upTo == {d \in 1..TickStep : \A j \in jobs : d <= j.remaining}
  IN  CHOOSE d \in upTo : \A e \in upTo : e <= d

\* time passes; a due job runs before more time passes
Tick ==
  /\ \A j \in jobs : j.remaining > 0
  /\ jobs' = {[j EXCEPT !.remaining = @ - Advance] : j \in jobs}
  /\ since' = [u \in Users |->
                 IF burst[u] # << >> THEN Min(since[u] + Advance, TextDelay + 1)
                 ELSE since[u]]
  /\ last' = Quiet("tick", 0)
  /\ UNCHANGED <<session, files, temp_srt, burst, flushes, delivered, cleared>>

\* ------------------------------------------------------------------- commands
start(u) ==
  /\ last' = [Quiet("start", u) EXCEPT !.reply = "Help"]
  /\ UNCHANGED <<session, jobs, files, temp_srt, history>>

\* a clear that only answers
ClearedBuffer_Kept(buf) == buf

\* what clear_buffer and the clear_data button store as the buffer
ClearedBuffer(buf) == EmptyStr

clear_buffer(u) ==
  /\ buffer' = [buffer EXCEPT ![u] = ClearedBuffer(GetBuffer(u))]
  /\ last' = [Quiet("clear_buffer", u) EXCEPT !.reply = "Cleared"]
  /\ EndBurst(u)
  /\ cleared' = [cleared EXCEPT ![u] = TRUE]
  /\ UNCHANGED <<job, voice, jobs, files, temp_srt, delivered>>

\* settings_command on a message update: the category menu
settings_command(u) ==
  /\ last' = [Quiet("settings_command", u) EXCEPT !.reply = "Settings"]
  /\ UNCHANGED <<session, jobs, files, temp_srt, history>>

\* ------------------------------------------------------------- run_generation
\* a run that forgets the auto-clear
ClearsBuffer_Never(synthOk, sendOk) == FALSE

\* a run that clears in a finally clause
ClearsBuffer_Finally(synthOk, sendOk) == TRUE

\* context.user_data['buffer'] = "" is the last statement of the try block: it
\* runs when neither generate_audio nor send_audio has raised
ClearsBuffer(synthOk, sendOk) == synthOk /\ sendOk

\* What run_generation does to a session whose buffer is buf: the message it ends
\* with, whether generate_audio was called, how it ended and on what text, whether
\* it stored "" as the buffer, whether downloads/<user>.mp3 exists afterwards.
\* env is what the collaborators do in this call:
\*   parseOk  temp.srt could be written and parsed
\*   synthOk  generate_audio returned; partial: a failed call left a file behind
\*   sendOk   send_audio returned
run_generation(buf, tempBefore, hadFile, env) ==
  LET clean_text == srt_to_clean_text(buf, tempBefore, env.parseOk)
      synthOk == env.synthOk
      partial == env.partial
      sendOk == env.sendOk
  IN  IF buf = EmptyStr
      THEN [reply |-> "EmptyBuffer", engine |-> FALSE, synth |-> "none",
            text |-> EmptyStr, clears |-> FALSE, file |-> hadFile]
      ELSE IF ~synthOk
      THEN [reply |-> "GenError", engine |-> TRUE, synth |-> "failed",
            text |-> clean_text, clears |-> ClearsBuffer(synthOk, sendOk),
            file |-> hadFile \/ partial]
      ELSE IF ~sendOk
      THEN [reply |-> "GenError", engine |-> TRUE, synth |-> "ok",
            text |-> clean_text, clears |-> ClearsBuffer(synthOk, sendOk),
            file |-> TRUE]
      ELSE [reply |-> "Generated", engine |-> TRUE, synth |-> "ok",
            text |-> clean_text, clears |-> ClearsBuffer(synthOk, sendOk),
            file |-> FALSE]

\* the step of callback_handler that ends in run_generation(update, context, voice_id)
Generate(u, data, voice_id, env) ==
  LET buf == GetBuffer(u)
      r == run_generation(buf, temp_srt, u \in files, env)
  IN  /\ buffer' = IF r.clears THEN [buffer EXCEPT ![u] = EmptyStr] ELSE buffer
      /\ files' = IF r.file THEN files \cup {u} ELSE files \ {u}
      /\ temp_srt' = IF buf # EmptyStr /\ env.parseOk THEN buf ELSE temp_srt
      /\ last' = [Quiet("callback_handler", u) EXCEPT
                    !.token = data, !.reply = r.reply, !.engine = r.engine,
                    !.synth = r.synth, !.text = r.text,
                    !.voice_id = IF r.engine THEN voice_id ELSE ""]
      /\ IF r.reply = "Generated"
         THEN /\ EndBurst(u)
              /\ delivered' = [delivered EXCEPT ![u] = TRUE]
         ELSE UNCHANGED <<burst, since, flushes, delivered>>
      /\ UNCHANGED <<job, voice, jobs, cleared>>

\* ------------------------------------------------------------ callback_handler
\* callback data as its '_'-separated fields: "run_x" is <<"run", "x">>
Tokens ==
  { <<"clear", "data">>, <<"gen", "default">>, <<"gen", "choose">>,
    <<"back", "settings">>,
    <<"setcat", "english">>, <<"setcat", "klingon">>, <<"setcat", "">>,
    <<"pickcat", "burmese">>, <<"pickcat", "klingon">>,
    <<"setvoice", "en-GB-RyanNeural">>, <<"setvoice", "xx-bogus">>,
    <<"run", "ja-JP-KeitaNeural">>, <<"run", "xx-bogus">>,
    <<"run">>, <<"menu", "main">>, <<"noop">> }

\* data.startswith(prefix + "_")
StartsWith(data, prefix) == Len(data) >= 2 /\ data[1] = prefix

\* data.split("_")[1]
Payload(data) == data[2]

\* a reply of the handler that changes no state
Reply(u, data, reply, raised) ==
  /\ last' = [Quiet("callback_handler", u) EXCEPT
                !.token = data, !.reply = reply, !.raised = raised]
  /\ UNCHANGED <<session, jobs, files, temp_srt, history>>

\* VOICE_CATEGORIES[cat]['voices'] raises KeyError for a key that is no category
CategoryMenu(u, data, reply) ==
  IF Payload(data) \in CategoryKeys
  THEN Reply(u, data, reply, FALSE)
  ELSE Reply(u, data, "none", TRUE)

\* the voice the setvoice_ branch stores
StoredVoice(old, vid) == vid

callback_handler(u, data, env) ==
  IF data = <<"clear", "data">>
  THEN /\ buffer' = [buffer EXCEPT ![u] = ClearedBuffer(GetBuffer(u))]
       /\ last' = [Quiet("callback_handler", u) EXCEPT !.token = data, !.reply = "Cleared"]
       /\ EndBurst(u)
       /\ cleared' = [cleared EXCEPT ![u] = TRUE]
       /\ UNCHANGED <<job, voice, jobs, files, temp_srt, delivered>>
  ELSE IF data = <<"gen", "default">>
  THEN Generate(u, data, get_user_voice(u), env)
  ELSE IF data = <<"gen", "choose">>
  THEN Reply(u, data, "PickCategory", FALSE)
  ELSE IF StartsWith(data, "setcat")
  THEN CategoryMenu(u, data, "SetVoiceMenu")
  ELSE IF StartsWith(data, "setvoice")
  THEN /\ voice' = [voice EXCEPT ![u] = StoredVoice(@, Payload(data))]
       /\ last' = [Quiet("callback_handler", u) EXCEPT
                     !.token = data, !.reply = "VoiceUpdated"]
       /\ UNCHANGED <<buffer, job, jobs, files, temp_srt, history>>
  ELSE IF data = <<"back", "settings">>
  \* settings_command replies through update.message, which a button update lacks
  THEN Reply(u, data, "none", TRUE)
  ELSE IF StartsWith(data, "pickcat")
  THEN CategoryMenu(u, data, "RunVoiceMenu")
  ELSE IF StartsWith(data, "run")
  THEN Generate(u, data, Payload(data), env)
  ELSE Reply(u, data, "none", FALSE)

\* ------------------------------------------------------------------ keyboards
\* a catalog that spells its ids with "_" ("en_US-AriaNeural")
Fields_Locale(id) == <<"en", id>>

\* id.split("_") of a category key or a voice id of the catalog: none of them
\* holds a "_", so each is one field
Fields(id) == <<id>>

\* f"{prefix}_{id}", as the fields split("_") cuts it into
Token(prefix, id) == <<prefix>> \o Fields(id)

\* the keyboard under the prompt of process_buffered_text
PromptKeyboard == { <<"gen", "default">>, <<"gen", "choose">>, <<"clear", "data">> }

\* the keyboard of settings_command: one setcat_<key> button per category
SettingsKeyboard == {Token("setcat", key) : key \in CategoryKeys}

\* the keyboard of the gen_choose branch
PickCategoryKeyboard == {Token("pickcat", key) : key \in CategoryKeys}

\* the keyboard of the setcat_ branch
SetVoiceKeyboard(cat) ==
  {Token("setvoice", vid) : vid \in VOICE_CATEGORIES[cat]} \cup { <<"back", "settings">> }

\* the keyboard of the pickcat_ branch
RunVoiceKeyboard(cat) == {Token("run", vid) : vid \in VOICE_CATEGORIES[cat]}

\* the reply_markup of the message the handler that ran last has sent
Keyboard(l) ==
  IF l.reply = "Prompt" THEN PromptKeyboard
  ELSE IF l.reply = "Settings" THEN SettingsKeyboard
  ELSE IF l.reply = "PickCategory" THEN PickCategoryKeyboard
  ELSE IF l.reply = "SetVoiceMenu" THEN SetVoiceKeyboard(Payload(l.token))
  ELSE IF l.reply = "RunVoiceMenu" THEN RunVoiceKeyboard(Payload(l.token))
  ELSE {}

\* the branches of callback_handler, by the token or prefix each tests for
BranchNames ==
  {"clear_data", "gen_default", "gen_choose", "setcat", "setvoice", "back_settings",
   "pickcat", "run"}

\* the condition of a branch holds for the callback data
Matches(branch, data) ==
  IF branch = "clear_data" THEN data = <<"clear", "data">>
  ELSE IF branch = "gen_default" THEN data = <<"gen", "default">>
  ELSE IF branch = "gen_choose" THEN data = <<"gen", "choose">>
  ELSE IF branch = "back_settings" THEN data = <<"back", "settings">>
  ELSE StartsWith(data, branch)

Branches(data) == {b \in BranchNames : Matches(b, data)}

\* ---------------------------------------------------------------------- system
\* what the file system, the synthesis engine and the transport do during a call
Calm == [parseOk |-> TRUE, synthOk |-> TRUE, partial |-> FALSE, sendOk |-> TRUE]

Envs ==
  { [parseOk |-> p, synthOk |-> TRUE, partial |-> FALSE, sendOk |-> d] : p, d \in BOOLEAN }
  \cup
  { [parseOk |-> p, synthOk |-> FALSE, partial |-> f, sendOk |-> TRUE] : p, f \in BOOLEAN }

\* the tokens whose branch ends in run_generation
Generates(data) == data = <<"gen", "default">> \/ (Len(data) >= 2 /\ data[1] = "run")

\* With two users the runs keep to the events that write a session or read it for
\* the engine: fragments, uploads, /clear, the Generate button, the timers; the
\* engine call ends well or fails, with temp.srt readable or not.
SessionTokens == { <<"gen", "default">> }

SessionEnvs == {e \in Envs : ~e.partial /\ e.sendOk}

\* the application handles one update at a time
Counted == updates < MaxUpdates /\ updates' = updates + 1 /\ UNCHANGED users

TextMessage ==
  /\ Counted
  /\ \E u \in users : \E text \in TextFragments(u), r \in BOOLEAN :
       handle_text_message(u, text, r)

FileUpload ==
  /\ Counted
  /\ \E u \in users : \E name \in FileNames, c \in FileContents(u), ok \in BOOLEAN :
       handle_file(u, name, c, ok)

Command ==
  /\ Counted
  /\ \E u \in users :
       \/ clear_buffer(u)
       \/ ~Shared /\ (start(u) \/ settings_command(u))

ButtonTap ==
  /\ Counted
  /\ \E u \in users, data \in (IF Shared THEN SessionTokens ELSE Tokens) :
       \E env \in (IF ~Generates(data) THEN {Calm}
                    ELSE IF Shared THEN SessionEnvs ELSE Envs) :
         callback_handler(u, data, env)

TimerFires == UNCHANGED <<updates, users>> /\ \E j \in jobs : process_buffered_text(j)

TimePasses == UNCHANGED <<updates, users>> /\ Tick

Next == TextMessage \/ FileUpload \/ Command \/ ButtonTap \/ TimerFires \/ TimePasses

\* the bot with one user
Spec == Init /\ [][Next]_vars

\* the bot with two users
SpecShared == InitShared /\ [][Next]_vars

\* ------------------------------------------------------- the normalizer alone
\* srt_to_clean_text as a function of its argument: the run starts with a text in
\* the buffer of user 1, the function is applied to it and then to its own result.
MaxTextLen == 4

Atoms == {"NL", "SP", "TS", "1", "a"}

RECURSIVE TextsOfLen(_)
TextsOfLen(n) ==
  IF n = 0 THEN { << >> } ELSE {Append(t, c) : t \in TextsOfLen(n - 1), c \in Atoms}

Texts == UNION {TextsOfLen(n) : n \in 0..MaxTextLen}

InitText ==
  /\ \E t \in Texts : buffer = [u \in Users |-> IF u = 1 THEN t ELSE NoBuffer]
  /\ Fresh
  /\ users = {1}

\* one call of srt_to_clean_text(srt_content); ok: temp.srt was written and parsed,
\* otherwise the except branch answered
Normalized(op, srt_content, ok) ==
  /\ last' = [Quiet(op, 1) EXCEPT
                !.reply = IF ok THEN "Parsed" ELSE "Fallback",
                !.read = srt_content,
                !.text = srt_to_clean_text(srt_content, temp_srt, ok)]
  /\ temp_srt' = IF ok THEN srt_content ELSE temp_srt
  /\ UNCHANGED <<session, jobs, files, history, updates, users>>

Normalize == last.op = "init" /\ \E ok \in BOOLEAN : Normalized("normalize", buffer[1], ok)

\* the second call runs in the environment of the first
NormalizeAgain ==
  last.op = "normalize" /\ Normalized("normalize_again", last.text, last.reply = "Parsed")

NextText == Normalize \/ NormalizeAgain

SpecNormalize == InitText /\ [][NextText]_vars

\* ------------------------------------------------------------ the menus alone
\* One user who types, opens /settings and taps only buttons the bot has just
\* shown.  A chain of taps ends after three at most (a voice is stored, a
\* generation runs, the buffer is cleared), so only the messages are counted.
OpenSettings == Counted /\ \E u \in users : settings_command(u)

TapRendered ==
  /\ UNCHANGED <<updates, users>>
  /\ \E u \in users : \E data \in Keyboard(last) :
       /\ last.user = u
       /\ \E env \in (IF Generates(data) THEN SessionEnvs ELSE {Calm}) :
            callback_handler(u, data, env)

NextMenus == TextMessage \/ OpenSettings \/ TapRendered \/ TimerFires \/ TimePasses

SpecMenus == Init /\ [][NextMenus]_vars

\* ---------------------------------------------------------- the session alone
\* One user who types, uploads, sends commands and taps the two buttons that
\* write the buffer: Generate and Cancel / Clear.
SessionTap ==
  /\ Counted
  /\ \E u \in users, data \in { <<"gen", "default">>, <<"clear", "data">> } :
       \E env \in (IF Generates(data) THEN Envs ELSE {Calm}) :
         callback_handler(u, data, env)

NextSession == TextMessage \/ FileUpload \/ Command \/ SessionTap \/ TimerFires \/ TimePasses

SpecSession == Init /\ [][NextSession]_vars

\* ---------------------------------------------------------------- properties
\* the words of a text
Words(s) == {s[i] : i \in 1..Len(s)} \cap {"a", "b"}

RECURSIVE Concat(_)
Concat(parts) == IF parts = << >> THEN << >> ELSE Head(parts) \o Concat(Tail(parts))

\* the fragments of a burst as handle_text_message stores them
Stored(fragments) == Concat([i \in 1..Len(fragments) |-> AppendText(<< >>, fragments[i])])

IsPrefix(t, s) == Len(t) <= Len(s) /\ SubSeq(s, 1, Len(t)) = t

IsSuffix(t, s) == Len(t) <= Len(s) /\ SubSeq(s, Len(s) - Len(t) + 1, Len(s)) = t

\* the handler that ran last was a button tap that reached run_generation
GenerateTap(l, u) == l.op = "callback_handler" /\ l.user = u /\ Generates(l.token)

\* the handler that ran last took in an upload: accepted and downloaded
UploadStep(l, u) == l.op = "handle_file" /\ l.user = u /\ l.reply = "none" /\ ~l.raised

\* the handler that ran last took in a fragment: a text message or an upload
FragmentStep(l, u) == (l.op = "handle_text_message" /\ l.user = u) \/ UploadStep(l, u)

\* the handler that ran last was the callback of the timer of an upload
FileFlushStep(l, u) == l.op = "process_buffered_text" /\ l.user = u /\ l.data = NoData

\* the handler that ran last was the callback of a flush timer
FlushStep(l, u) == l.op = "process_buffered_text" /\ l.user = u

\* the handler that ran last was a clear: the command or the button
ClearAction(l, u) ==
  /\ l.user = u
  /\ \/ l.op = "clear_buffer"
     \/ l.op = "callback_handler" /\ l.token = <<"clear", "data">>

\* a token some branch of callback_handler is written for, with a payload of the catalog
WellFormed(data) ==
  \/ data \in { <<"clear", "data">>, <<"gen", "default">>, <<"gen", "choose">>,
                <<"back", "settings">> }
  \/ Len(data) = 2 /\ data[1] \in {"setcat", "pickcat"} /\ data[2] \in CategoryKeys
  \/ Len(data) = 2 /\ data[1] \in {"setvoice", "run"} /\ data[2] \in ALL_VOICES_FLAT

\* the handler that ran last was a button tap with an unknown or malformed token
BadTap(l, u) == l.op = "callback_handler" /\ l.user = u /\ ~WellFormed(l.token)

\* C1: a burst of text fragments (every gap below the debounce delay) is flushed
\* exactly once by its timer, not before the delay has passed since the last
\* fragment, and the flush reads a buffer that ends with all its fragments in order.
C1_DebounceCoalescing ==
  \A u \in Users :
    burst[u] # << >> =>
      /\ (last.op = "process_buffered_text" /\ last.user = u /\ last.data = u) =>
           /\ since[u] >= TextDelay
           /\ flushes[u] = 1
           /\ IsSuffix(Stored(burst[u]), last.read)
      /\ since[u] > TextDelay => flushes[u] = 1

\* C2: every session has at most one live flush timer.
C2_AtMostOneLiveTimer == \A u \in Users : Cardinality(JobsOf(u)) <= 1

\* C3: once a generation has succeeded, every later generate tap with no new
\* fragment in between reports the empty buffer and does not call the engine.
C3_OneJobPerInput ==
  [][\A u \in Users :
       (delivered[u] /\ GenerateTap(last', u)) =>
         (last'.reply = "EmptyBuffer" /\ ~last'.engine)]_vars

C3_Witness ==
  \E u \in Users : delivered[u] /\ GenerateTap(last, u) /\ last.reply = "EmptyBuffer"

\* C4: when run_generation returns after calling the engine, downloads/<user>.mp3
\* is absent, on the success path and on the failure paths.
C4_ArtifactRemoved ==
  \A u \in Users : (GenerateTap(last, u) /\ last.engine) => u \notin files

\* C5: a failed synthesis leaves the buffer as it was and sends an error message;
\* run_generation changes the buffer only to empty it, and only after a delivery.
C5_FailureKeepsBuffer ==
  [][\A u \in Users :
       GenerateTap(last', u) =>
         /\ last'.synth = "failed" => (buffer'[u] = buffer[u] /\ last'.reply = "GenError")
         /\ buffer'[u] # buffer[u] =>
              (buffer'[u] = EmptyStr /\ last'.synth = "ok" /\ last'.reply = "Generated")]_vars

C5_Witness ==
  \E u \in Users :
    /\ GenerateTap(last, u) /\ last.synth = "failed" /\ last.reply = "GenError"
    /\ buffer[u] # NoBuffer /\ buffer[u] # EmptyStr

\* C6: a clear leaves the buffer empty, and a generate tap after it, with no new
\* fragment in between, reports the empty buffer and does not call the engine.
C6_ClearResets ==
  [][\A u \in Users :
       /\ ClearAction(last', u) => buffer'[u] = EmptyStr
       /\ (cleared[u] /\ GenerateTap(last', u)) =>
            (last'.reply = "EmptyBuffer" /\ ~last'.engine)]_vars

C6_Witness ==
  \E u \in Users :
    /\ cleared[u] /\ GenerateTap(last, u) /\ last.reply = "EmptyBuffer"
    /\ ~delivered[u] /\ job[u] # NoJob

\* C7: right after a clear the session has no live flush timer.
C7_ClearCancelsTimer ==
  \A u \in Users : ClearAction(last, u) => JobsOf(u) = {}

\* what a session holds, and what its handlers read and pass on, is its user's text
C8_Isolated ==
  \A u \in Users :
    /\ Words(GetBuffer(u)) \subseteq {Word(u)}
    /\ last.user = u => (Words(last.text) \cup Words(last.read)) \subseteq {Word(u)}

\* a step taken for one user leaves the sessions and timers of the others alone
C8_Untouched ==
  \A u \in Users :
    last'.user # u =>
      /\ buffer'[u] = buffer[u]
      /\ job'[u] = job[u]
      /\ {j.id : j \in JobsOf(u)}' = {j.id : j \in JobsOf(u)}

\* C8: a session's buffer holds only what its user sent, the engine gets text of
\* the tapping user only, and a handler run for one user leaves the buffer, the
\* job reference and the scheduled jobs of every other user alone.
C8_SessionIsolation == [](C8_Isolated) /\ [][C8_Untouched]_vars

C8_Witness ==
  /\ delivered[1] /\ JobsOf(1) # {}
  /\ last.user = 2 /\ last.engine /\ "b" \in Words(last.text)

\* C9: an unknown or malformed token is answered with an error message and no
\* exception leaves callback_handler.
C9_BadTokenReported ==
  \A u \in Users :
    BadTap(last, u) => (last.reply \in {"EmptyBuffer", "GenError"} /\ ~last.raised)

\* C10: handling an unknown or malformed token leaves the buffer, the pending
\* timer and the stored voice of the session as they were.
C10_BadTokenKeepsSession ==
  [][\A u \in Users :
       BadTap(last', u) =>
         /\ buffer'[u] = buffer[u]
         /\ job'[u] = job[u]
         /\ JobsOf(u)' = JobsOf(u)
         /\ voice'[u] = voice[u]]_vars

\* C11: a text without the cue separator "-->" comes out of srt_to_clean_text
\* unchanged.
C11_PlainTextUnchanged ==
  (last.op = "normalize" /\ ArrowCount(last.read) = 0) => last.text = last.read

\* C12: applying srt_to_clean_text to its own result gives that result again.
C12_Idempotent == last.op = "normalize_again" => last.text = last.read

\* C13: run_generation calls the engine only with text that is not empty after
\* srt_to_clean_text.
C13_EngineTextNonEmpty ==
  \A u \in Users : (GenerateTap(last, u) /\ last.engine) => last.text # EmptyStr

\* C14: the voice id the engine is called with is a voice of the catalog.
C14_EngineVoiceInCatalog ==
  \A u \in Users : (GenerateTap(last, u) /\ last.engine) => last.voice_id \in ALL_VOICES_FLAT

C16_FlushAfterClearIsNoOp ==
  [][\A u \in Users :
       (FlushStep(last', u) /\ (cleared[u] \/ delivered[u])) =>
         /\ last'.reply = "none" /\ ~last'.raised
         /\ last'.read = EmptyStr
         /\ buffer'[u] = buffer[u] /\ job'[u] = job[u] /\ voice'[u] = voice[u]]_vars

C16_Witness ==
  \E u \in Users : FlushStep(last, u) /\ last.data = u /\ cleared[u] /\ last.reply = "none"

\* C17: a session holds no reference to a timer that has fired: the job it
\* refers to, if any, is still scheduled.
C17_NoStaleTimerReference ==
  \A u \in Users : job[u] # NoJob => \E j \in jobs : j.id = job[u]

\* C18: taking in a fragment (a text message or an uploaded file) keeps what the
\* buffer held, the new fragment coming after it, and a flush reads the buffer
\* with every fragment taken in before the timer fired.
C18_NoFragmentLost ==
  [][\A u \in Users :
       /\ FragmentStep(last', u) =>
            (IsPrefix(GetBuffer(u), buffer'[u]) /\ Len(buffer'[u]) > Len(GetBuffer(u)))
       /\ FlushStep(last', u) => last'.read = GetBuffer(u)]_vars

\* C19: a tap on back_settings shows the settings menu again, one setcat_<key>
\* button per category, and raises nothing.
C19_BackShowsSettings ==
  \A u \in Users :
    (last.op = "callback_handler" /\ last.user = u /\ last.token = <<"back", "settings">>) =>
      /\ ~last.raised
      /\ last.reply = "Settings"
      /\ Keyboard(last) = SettingsKeyboard

\* the ids the buttons of a keyboard decode to, for the buttons of one prefix
Decoded(keyboard, prefix) == {Payload(t) : t \in {k \in keyboard : k[1] = prefix}}

\* C20: every token of a keyboard the bot shows is matched by exactly one branch
\* of callback_handler, and the payloads the branches extract are the category
\* keys and voice ids the keyboard was built from, all of the catalog.
C20_TokenClosure ==
  /\ \A t \in Keyboard(last) :
       /\ Cardinality(Branches(t)) = 1
       /\ t[1] \in {"setcat", "pickcat"} => Payload(t) \in CategoryKeys
       /\ t[1] \in {"setvoice", "run"} => Payload(t) \in ALL_VOICES_FLAT
  /\ last.reply = "Settings" => Decoded(Keyboard(last), "setcat") = CategoryKeys
  /\ last.reply = "PickCategory" => Decoded(Keyboard(last), "pickcat") = CategoryKeys
  /\ last.reply = "SetVoiceMenu" =>
       Decoded(Keyboard(last), "setvoice") = VOICE_CATEGORIES[Payload(last.token)]
  /\ last.reply = "RunVoiceMenu" =>
       Decoded(Keyboard(last), "run") = VOICE_CATEGORIES[Payload(last.token)]
  /\ last.op = "callback_handler" => (last.reply # "none" \/ last.token = <<"back", "settings">>)

\* a voice button of the multilingual menu was tapped and the engine ran with it
C20_Witness ==
  /\ GenerateTap(last, 1) /\ last.reply = "Generated"
  /\ last.token = <<"run", "en-US-AvaMultilingualNeural">>
  /\ last.voice_id = "en-US-AvaMultilingualNeural"

=============================================================================
